---- MODULE Spec2Model ----
(***************************************************************************)
(* Model of bricklink.py: the BricklinkApi client.  Every public method    *)
(* builds a URL from its arguments and hands it to _perform_get_request,   *)
(* which issues one signed GET, inspects the envelope of the JSON answer   *)
(* and returns its data or raises.                                         *)
(*                                                                         *)
(* A URL is a sequence of string pieces: the literal pieces of the format  *)
(* strings of the source and the formatted arguments, in order.  Render    *)
(* concatenates the pieces into the string the code builds.                *)
(***************************************************************************)
EXTENDS Integers, Sequences, FiniteSets, TLC

VARIABLES self, ncalls, nrequests, call, reply, requests, outcome

vars == <<self, ncalls, nrequests, call, reply, requests, outcome>>

(***************************************************************************)
(* Bounds of the model.                                                    *)
(***************************************************************************)
MaxCalls == 2      \* calls made on one client in SpecSeq
MaxGroups == 2     \* groups in a superset / subset payload
MaxEntries == 3    \* entries in one group of a payload

(***************************************************************************)
(* Python values of the optional arguments: None, int, bool, str.          *)
(***************************************************************************)
None == [t |-> "NoneType", v |-> 0]
PyInt(n) == [t |-> "int", v |-> n]
PyBool(b) == [t |-> "bool", v |-> b]
PyStr(s) == [t |-> "str", v |-> s]

\* "if x is not None:" in place of "if x:"
Truthy_presence(x) == x.t # "NoneType"

\* the truth value Python gives a value in "if x:"
Truthy(x) ==
  CASE x.t = "NoneType" -> FALSE
    [] x.t = "int" -> x.v # 0
    [] x.t = "bool" -> x.v
    [] x.t = "str" -> x.v # ""

Digit(d) ==
  CASE d = 0 -> "0" [] d = 1 -> "1" [] d = 2 -> "2" [] d = 3 -> "3"
    [] d = 4 -> "4" [] d = 5 -> "5" [] d = 6 -> "6" [] d = 7 -> "7"
    [] d = 8 -> "8" [] d = 9 -> "9"

RECURSIVE Dec(_)
Dec(n) ==
  IF n < 0 THEN "-" \o Dec(-n)
  ELSE IF n < 10 THEN Digit(n)
  ELSE Dec(n \div 10) \o Digit(n % 10)

\* "%d" % x for an int or a bool
FormatD(x) == IF x.t = "bool" THEN (IF x.v THEN "1" ELSE "0") ELSE Dec(x.v)

\* "%r" % x
FormatR(x) ==
  CASE x.t = "bool" -> (IF x.v THEN "True" ELSE "False")
    [] x.t = "int" -> Dec(x.v)
    [] x.t = "str" -> "'" \o x.v \o "'"
    [] x.t = "NoneType" -> "None"

\* "%s" % x
FormatS(x) ==
  CASE x.t = "str" -> x.v
    [] x.t = "bool" -> (IF x.v THEN "True" ELSE "False")
    [] x.t = "int" -> Dec(x.v)
    [] x.t = "NoneType" -> "None"

\* sep.join(params): params is a sequence of piece sequences
RECURSIVE Join(_, _)
Join(sep, params) ==
  IF params = <<>> THEN <<>>
  ELSE IF Len(params) = 1 THEN params[1]
  ELSE params[1] \o <<sep>> \o Join(sep, Tail(params))

RECURSIVE Render(_)
Render(pieces) ==
  IF pieces = <<>> THEN "" ELSE pieces[1] \o Render(Tail(pieces))

(***************************************************************************)
(* The client object and the exception.                                    *)
(***************************************************************************)
BRICKLINK_URL == "https://api.bricklink.com/api/store/v1"

OAuth1(ck, cs, at, ats) ==
  [client_key |-> ck, client_secret |-> cs,
   resource_owner_key |-> at, resource_owner_secret |-> ats]

\* BricklinkApi.__init__
BricklinkApi(ck, cs, at, ats) == [oauth |-> OAuth1(ck, cs, at, ats)]

Return(v) == [status |-> "return", exc |-> "", value |-> v]
Raise(type, v) == [status |-> "raise", exc |-> type, value |-> v]

\* BricklinkException(**kwargs): the keywords must be exactly the
\* parameters of __init__, otherwise the call itself raises TypeError
BricklinkException(kwargs) ==
  IF DOMAIN kwargs = {"code", "message", "description"}
  THEN Raise("BricklinkException",
             [code |-> kwargs.code, message |-> kwargs.message,
              description |-> kwargs.description])
  ELSE Raise("TypeError", "__init__")

\* what requests.get(url, auth).json() gives back: a parsed JSON document,
\* or an exception of the transport
JsonReply(doc) == [json |-> doc]
TransportFailure == [raises |-> "ConnectionError"]

\* _perform_get_request with "return response" in place of "return data"
perform_get_request_envelope(slf, url, rep) ==
  LET sent == <<[url |-> url, auth |-> slf.oauth]>>
      result(o) == [self |-> slf, requests |-> sent, outcome |-> o]
  IN  IF "json" \notin DOMAIN rep THEN result(Raise(rep.raises, ""))
      ELSE LET response == rep.json
           IN  IF "meta" \notin DOMAIN response THEN result(Raise("KeyError", "meta"))
               ELSE IF "code" \notin DOMAIN response.meta
                 THEN result(Raise("KeyError", "code"))
               ELSE IF response.meta.code # 200
                 THEN result(BricklinkException(response.meta))
               ELSE IF "data" \notin DOMAIN response
                 THEN result(Raise("KeyError", "data"))
               ELSE result(Return(response))

\* _perform_get_request that checks the status only after reading data:
\* an answer without data fails the same way whatever its code
perform_get_request_data_first(slf, url, rep) ==
  LET sent == <<[url |-> url, auth |-> slf.oauth]>>
      result(o) == [self |-> slf, requests |-> sent, outcome |-> o]
  IN  IF "json" \notin DOMAIN rep THEN result(Raise(rep.raises, ""))
      ELSE LET response == rep.json
           IN  IF "meta" \notin DOMAIN response THEN result(Raise("KeyError", "meta"))
               ELSE IF "data" \notin DOMAIN response
                 THEN result(Raise("KeyError", "data"))
               ELSE IF "code" \notin DOMAIN response.meta
                 THEN result(Raise("KeyError", "code"))
               ELSE IF response.meta.code # 200
                 THEN result(BricklinkException(response.meta))
               ELSE result(Return(response.data))

\* _perform_get_request that asks once more when the status is not 200
perform_get_request_retry(slf, url, rep) ==
  LET one == [url |-> url, auth |-> slf.oauth]
      result(sent, o) == [self |-> slf, requests |-> sent, outcome |-> o]
  IN  IF "json" \notin DOMAIN rep THEN result(<<one>>, Raise(rep.raises, ""))
      ELSE LET response == rep.json
           IN  IF "meta" \notin DOMAIN response
                 THEN result(<<one>>, Raise("KeyError", "meta"))
               ELSE IF "code" \notin DOMAIN response.meta
                 THEN result(<<one>>, Raise("KeyError", "code"))
               ELSE IF response.meta.code # 200
                 THEN result(<<one, one>>, BricklinkException(response.meta))
               ELSE IF "data" \notin DOMAIN response
                 THEN result(<<one>>, Raise("KeyError", "data"))
               ELSE result(<<one>>, Return(response.data))

\* _perform_get_request that keeps the last URL in the client object
perform_get_request_stateful(slf, url, rep) ==
  LET sent == <<[url |-> url, auth |-> slf.oauth]>>
      result(o) == [self |-> [oauth |-> slf.oauth, last_url |-> url],
                    requests |-> sent, outcome |-> o]
  IN  IF "json" \notin DOMAIN rep THEN result(Raise(rep.raises, ""))
      ELSE LET response == rep.json
           IN  IF "meta" \notin DOMAIN response THEN result(Raise("KeyError", "meta"))
               ELSE IF "code" \notin DOMAIN response.meta
                 THEN result(Raise("KeyError", "code"))
               ELSE IF response.meta.code # 200
                 THEN result(BricklinkException(response.meta))
               ELSE IF "data" \notin DOMAIN response
                 THEN result(Raise("KeyError", "data"))
               ELSE result(Return(response.data))

\* BricklinkApi._perform_get_request: one GET signed with the credentials of
\* the client; the result names the client object after the call, the
\* requests issued and the value returned or the exception raised
_perform_get_request(slf, url, rep) ==
  LET sent == <<[url |-> url, auth |-> slf.oauth]>>
      result(o) == [self |-> slf, requests |-> sent, outcome |-> o]
  IN  IF "json" \notin DOMAIN rep THEN result(Raise(rep.raises, ""))
      ELSE LET response == rep.json
           IN  IF "meta" \notin DOMAIN response THEN result(Raise("KeyError", "meta"))
               ELSE IF "code" \notin DOMAIN response.meta
                 THEN result(Raise("KeyError", "code"))
               ELSE IF response.meta.code # 200
                 THEN result(BricklinkException(response.meta))
               ELSE IF "data" \notin DOMAIN response
                 THEN result(Raise("KeyError", "data"))
               ELSE result(Return(response.data))

(***************************************************************************)
(* The public methods.  Each gives the client object after the call, the   *)
(* requests issued and the outcome, for the reply the transport gives to   *)
(* its request.                                                            *)
(***************************************************************************)
getCatalogItem(slf, type, no, rep) ==
  _perform_get_request(slf, <<BRICKLINK_URL, "/items/", type, "/", no>>, rep)

\* getCatalogItemImage with type and no in the wrong positions
getCatalogItemImage_swapped(slf, type, no, color_id, rep) ==
  _perform_get_request(slf,
    <<BRICKLINK_URL, "/items/", no, "/", type, "/images/", FormatD(color_id)>>, rep)

getCatalogItemImage(slf, type, no, color_id, rep) ==
  _perform_get_request(slf,
    <<BRICKLINK_URL, "/items/", type, "/", no, "/images/", FormatD(color_id)>>, rep)

\* the decoding the code does not do: the color_id of a group put into the
\* item of each of its entries
InjectColor(data) ==
  [g \in 1..Len(data) |->
     [color_id |-> data[g].color_id,
      entries |->
        [e \in 1..Len(data[g].entries) |->
           [quantity |-> data[g].entries[e].quantity,
            appears_as |-> data[g].entries[e].appears_as,
            item |-> [no |-> data[g].entries[e].item.no,
                      name |-> data[g].entries[e].item.name,
                      type |-> data[g].entries[e].item.type,
                      category_id |-> data[g].entries[e].item.category_id,
                      color_id |-> data[g].color_id]]]]]

\* getCatalogSupersets that decodes the payload with InjectColor
getCatalogSupersets_inject(slf, type, no, color_id, rep) ==
  LET url0 == <<BRICKLINK_URL, "/items/", type, "/", no, "/supersets">>
      url == IF color_id # None
               THEN url0 \o <<"?", "color_id=", FormatD(color_id)>>
               ELSE url0
      r == _perform_get_request(slf, url, rep)
  IN  IF r.outcome.status = "return"
        THEN [r EXCEPT !.outcome = Return(InjectColor(r.outcome.value))]
        ELSE r

getCatalogSupersets(slf, type, no, color_id, rep) ==
  LET url0 == <<BRICKLINK_URL, "/items/", type, "/", no, "/supersets">>
      url == IF color_id # None
               THEN url0 \o <<"?", "color_id=", FormatD(color_id)>>
               ELSE url0
  IN  _perform_get_request(slf, url, rep)

\* every group's entries, concatenated
RECURSIVE Flatten(_)
Flatten(data) ==
  IF data = <<>> THEN <<>> ELSE data[1].entries \o Flatten(Tail(data))

\* the optional_params list of getCatalogSubsets
SubsetParams(color_id, box, instruction, break_minifigs, break_subsets) ==
     (IF Truthy(color_id) THEN << <<"color_id=", FormatD(color_id)>> >> ELSE <<>>)
  \o (IF Truthy(box) THEN << <<"box=", FormatR(box)>> >> ELSE <<>>)
  \o (IF Truthy(instruction) THEN << <<"instruction=", FormatR(instruction)>> >> ELSE <<>>)
  \o (IF Truthy(break_minifigs)
        THEN << <<"break_minifigs=", FormatR(break_minifigs)>> >> ELSE <<>>)
  \o (IF Truthy(break_subsets)
        THEN << <<"break_subsets=", FormatR(break_subsets)>> >> ELSE <<>>)

\* getCatalogSubsets that decodes the payload with Flatten
getCatalogSubsets_flat(slf, type, no, color_id, box, instruction, break_minifigs, break_subsets, rep) ==
  LET url0 == <<BRICKLINK_URL, "/items/", type, "/", no, "/subsets">>
      optional_params ==
        SubsetParams(color_id, box, instruction, break_minifigs, break_subsets)
      url == url0 \o <<"?">> \o Join("&", optional_params)
      r == _perform_get_request(slf, url, rep)
  IN  IF r.outcome.status = "return"
        THEN [r EXCEPT !.outcome = Return(Flatten(r.outcome.value))]
        ELSE r

getCatalogSubsets(slf, type, no, color_id, box, instruction, break_minifigs, break_subsets, rep) ==
  LET url0 == <<BRICKLINK_URL, "/items/", type, "/", no, "/subsets">>
      optional_params ==
        SubsetParams(color_id, box, instruction, break_minifigs, break_subsets)
      url == url0 \o <<"?">> \o Join("&", optional_params)
  IN  _perform_get_request(slf, url, rep)

getCatalogPriceGuide(slf, type, no, color_id, guide_type, new_or_used, country_code, region, currency_code, vat, rep) ==
  LET url0 == <<BRICKLINK_URL, "/items/", type, "/", no, "/price">>
      optional_params ==
           (IF Truthy(color_id) THEN << <<"color_id=", FormatD(color_id)>> >> ELSE <<>>)
        \o (IF Truthy(guide_type)
              THEN << <<"guide_type=", FormatS(guide_type)>> >> ELSE <<>>)
        \o (IF Truthy(new_or_used)
              THEN << <<"new_or_used=", FormatS(new_or_used)>> >> ELSE <<>>)
        \o (IF Truthy(country_code)
              THEN << <<"country_code=", FormatS(country_code)>> >> ELSE <<>>)
        \o (IF Truthy(region) THEN << <<"region=", FormatS(region)>> >> ELSE <<>>)
        \o (IF Truthy(currency_code)
              THEN << <<"currency_code=", FormatS(currency_code)>> >> ELSE <<>>)
        \o (IF Truthy(vat) THEN << <<"vat=", FormatS(vat)>> >> ELSE <<>>)
      url == url0 \o <<"?">> \o Join("&", optional_params)
  IN  _perform_get_request(slf, url, rep)

(***************************************************************************)
(* The answers of the service.  The payloads have the shapes the           *)
(* docstrings of the methods give.                                         *)
(***************************************************************************)
MetaOK == [code |-> 200, message |-> "OK", description |-> "OK"]
MetaNotFound ==
  [code |-> 404, message |-> "RESOURCE_NOT_FOUND", description |-> "no such item"]
MetaBadAuth ==
  [code |-> 401, message |-> "BAD_OAUTH_REQUEST", description |-> "bad signature"]
\* meta objects that are not of the envelope's shape
MetaNoCode == [message |-> "OK", description |-> "OK"]
MetaCodeOnly == [code |-> 404]

EmptyObject == <<>>

ItemPayload(type, no) ==
  [item |-> [no |-> no, name |-> "Brick 2 x 4", type |-> type, category_id |-> 5],
   image_url |-> "//img/" \o no, weight |-> "2.32", is_obsolete |-> FALSE]

ImagePayload(type, no) ==
  [color_id |-> 5, thumbnail_url |-> "//img/" \o no, type |-> type, no |-> no]

PricePayload(type, no) ==
  [item |-> [no |-> no, type |-> type], new_or_used |-> "N",
   currency_code |-> "EUR", min_price |-> "0.0100", max_price |-> "1.5000",
   unit_quantity |-> 3, total_quantity |-> 7,
   price_detail |-> <<[quantity |-> 7, unit_price |-> "0.0100",
                       shipping_available |-> "true"]>>]

\* the color_id of the g-th group of a superset payload: 5, 11, 17, ...
GroupColor(g) == 6 * g - 1

\* the e-th entry of the g-th group; quantity tells the entries apart
SupersetEntry(g, e) ==
  [quantity |-> 10 * g + e, appears_as |-> "R",
   item |-> [no |-> "set-" \o Dec(10 * g + e), name |-> "Set", type |-> "SET",
             category_id |-> 65]]

SubsetEntry(g, e) ==
  [color_id |-> e, quantity |-> 10 * g + e, extra_quantity |-> 0,
   is_alternate |-> FALSE, is_counterpart |-> FALSE,
   item |-> [no |-> "part-" \o Dec(10 * g + e), name |-> "Part", type |-> "PART",
             category_id |-> 5]]

\* sizes[g] is the number of entries of the g-th group
SupersetPayload(sizes) ==
  [g \in 1..Len(sizes) |->
     [color_id |-> GroupColor(g),
      entries |-> [e \in 1..sizes[g] |-> SupersetEntry(g, e)]]]

SubsetPayload(sizes) ==
  [g \in 1..Len(sizes) |->
     [match_no |-> g - 1,
      entries |-> [e \in 1..sizes[g] |-> SubsetEntry(g, e)]]]

\* the group sizes of the payloads within the bounds
GroupSizes == UNION {[1..n -> 0..MaxEntries] : n \in 0..MaxGroups}

\* the answers that carry one of the payloads, and those that do not: an
\* error status with or without data, a missing meta, a missing data, a
\* meta of another shape, a failure of the transport
Replies(payloads) ==
       {JsonReply([meta |-> MetaOK, data |-> p]) : p \in payloads}
  \cup {JsonReply([meta |-> m, data |-> EmptyObject]) :
          m \in {MetaNotFound, MetaBadAuth, MetaNoCode, MetaCodeOnly}}
  \cup {JsonReply([meta |-> m]) :
          m \in {MetaOK, MetaNotFound, MetaNoCode, MetaCodeOnly}}
  \cup {JsonReply([data |-> EmptyObject]), JsonReply(EmptyObject), TransportFailure}

(***************************************************************************)
(* The arguments and answers the calls are made with.  Wide is used for    *)
(* one call on a new client, Narrow for sequences of calls.                *)
(***************************************************************************)
Flags == {None, PyBool(FALSE), PyBool(TRUE)}

Wide ==
  [types |-> {"PART", "SET"}, nos |-> {"3001", "col001"},
   image_colors |-> {PyInt(0), PyInt(5), PyInt(11)},
   color_id |-> {None, PyInt(0), PyInt(5)},
   box |-> Flags, instruction |-> Flags,
   break_minifigs |-> Flags, break_subsets |-> Flags,
   guide_type |-> {None, PyStr(""), PyStr("sold")},
   new_or_used |-> {None, PyStr(""), PyStr("U")},
   country_code |-> {None, PyStr(""), PyStr("US")},
   region |-> {None, PyStr(""), PyStr("asia")},
   currency_code |-> {None, PyStr(""), PyStr("EUR")},
   vat |-> {None, PyStr(""), PyStr("Y")},
   sizes |-> GroupSizes]

Narrow ==
  [types |-> {"PART"}, nos |-> {"3001"},
   image_colors |-> {PyInt(5)},
   color_id |-> {None, PyInt(0), PyInt(5)},
   box |-> Flags, instruction |-> {None},
   break_minifigs |-> {None}, break_subsets |-> {None},
   guide_type |-> {None, PyStr(""), PyStr("sold")},
   new_or_used |-> {None}, country_code |-> {None}, region |-> {None},
   currency_code |-> {None}, vat |-> {None},
   sizes |-> {<<>>, <<1, 2>>, <<2, 3>>}]

Credentials ==
  {<<"ck1", "cs1", "at1", "ats1">>, <<"ck2", "cs2", "at2", "ats2">>}

\* the arguments of a call; None stands for an argument the method does not
\* take or the caller did not supply
Args(op, type, no) ==
  [op |-> op, type |-> type, no |-> no, color_id |-> None,
   box |-> None, instruction |-> None, break_minifigs |-> None,
   break_subsets |-> None, guide_type |-> None, new_or_used |-> None,
   country_code |-> None, region |-> None, currency_code |-> None, vat |-> None]

NoCall == Args("none", "", "")
NoOutcome == [status |-> "none", exc |-> "", value |-> ""]

Init ==
  /\ \E c \in Credentials : self = BricklinkApi(c[1], c[2], c[3], c[4])
  /\ ncalls = 0
  /\ nrequests = 0
  /\ call = NoCall
  /\ reply = TransportFailure
  /\ requests = <<>>
  /\ outcome = NoOutcome

\* the state after a call c that was answered rep and ended as r
Called(c, rep, r) ==
  /\ self' = r.self
  /\ requests' = r.requests
  /\ outcome' = r.outcome
  /\ call' = c
  /\ reply' = rep
  /\ ncalls' = ncalls + 1
  /\ nrequests' = nrequests + Len(r.requests)

CallGetCatalogItem(U) ==
  \E type \in U.types, no \in U.nos :
    \E rep \in Replies({ItemPayload(type, no)}) :
      Called(Args("getCatalogItem", type, no), rep,
             getCatalogItem(self, type, no, rep))

CallGetCatalogItemImage(U) ==
  \E type \in U.types, no \in U.nos, color_id \in U.image_colors :
    \E rep \in Replies({ImagePayload(type, no)}) :
      Called([Args("getCatalogItemImage", type, no) EXCEPT !.color_id = color_id],
             rep, getCatalogItemImage(self, type, no, color_id, rep))

CallGetCatalogSupersets(U) ==
  \E type \in U.types, no \in U.nos, color_id \in U.color_id :
    \E rep \in Replies({SupersetPayload(s) : s \in U.sizes}) :
      Called([Args("getCatalogSupersets", type, no) EXCEPT !.color_id = color_id],
             rep, getCatalogSupersets(self, type, no, color_id, rep))

CallGetCatalogSubsets(U) ==
  \E type \in U.types, no \in U.nos, color_id \in U.color_id, box \in U.box,
     instruction \in U.instruction, break_minifigs \in U.break_minifigs,
     break_subsets \in U.break_subsets :
    \E rep \in Replies({SubsetPayload(s) : s \in U.sizes}) :
      Called([Args("getCatalogSubsets", type, no) EXCEPT
                !.color_id = color_id, !.box = box, !.instruction = instruction,
                !.break_minifigs = break_minifigs,
                !.break_subsets = break_subsets],
             rep,
             getCatalogSubsets(self, type, no, color_id, box, instruction,
                               break_minifigs, break_subsets, rep))

CallGetCatalogPriceGuide(U) ==
  \E type \in U.types, no \in U.nos, color_id \in U.color_id,
     guide_type \in U.guide_type, new_or_used \in U.new_or_used,
     country_code \in U.country_code, region \in U.region,
     currency_code \in U.currency_code, vat \in U.vat :
    \E rep \in Replies({PricePayload(type, no)}) :
      Called([Args("getCatalogPriceGuide", type, no) EXCEPT
                !.color_id = color_id, !.guide_type = guide_type,
                !.new_or_used = new_or_used, !.country_code = country_code,
                !.region = region, !.currency_code = currency_code, !.vat = vat],
             rep,
             getCatalogPriceGuide(self, type, no, color_id, guide_type,
                                  new_or_used, country_code, region,
                                  currency_code, vat, rep))

\* one call, with any arguments and any answer, on a new client
FirstGetCatalogItem == ncalls = 0 /\ CallGetCatalogItem(Wide)
FirstGetCatalogItemImage == ncalls = 0 /\ CallGetCatalogItemImage(Wide)
FirstGetCatalogSupersets == ncalls = 0 /\ CallGetCatalogSupersets(Wide)
FirstGetCatalogSubsets == ncalls = 0 /\ CallGetCatalogSubsets(Wide)
FirstGetCatalogPriceGuide == ncalls = 0 /\ CallGetCatalogPriceGuide(Wide)

Next ==
  \/ FirstGetCatalogItem
  \/ FirstGetCatalogItemImage
  \/ FirstGetCatalogSupersets
  \/ FirstGetCatalogSubsets
  \/ FirstGetCatalogPriceGuide

Spec == Init /\ [][Next]_vars

\* up to MaxCalls calls, one after the other, on one client
NextGetCatalogItem == ncalls < MaxCalls /\ CallGetCatalogItem(Narrow)
NextGetCatalogItemImage == ncalls < MaxCalls /\ CallGetCatalogItemImage(Narrow)
NextGetCatalogSupersets == ncalls < MaxCalls /\ CallGetCatalogSupersets(Narrow)
NextGetCatalogSubsets == ncalls < MaxCalls /\ CallGetCatalogSubsets(Narrow)
NextGetCatalogPriceGuide == ncalls < MaxCalls /\ CallGetCatalogPriceGuide(Narrow)

NextSeq ==
  \/ NextGetCatalogItem
  \/ NextGetCatalogItemImage
  \/ NextGetCatalogSupersets
  \/ NextGetCatalogSubsets
  \/ NextGetCatalogPriceGuide

SpecSeq == Init /\ [][NextSeq]_vars

(***************************************************************************)
(* What the properties read off a call: the URL it requested, cut at the   *)
(* first "?" into path and query string, and the query string cut at "&".  *)
(***************************************************************************)
RECURSIVE FirstIndex(_, _, _)
FirstIndex(seq, x, i) ==
  IF i > Len(seq) THEN 0
  ELSE IF seq[i] = x THEN i
  ELSE FirstIndex(seq, x, i + 1)

Range(seq) == {seq[i] : i \in 1..Len(seq)}

HasQueryMark(url) == FirstIndex(url, "?", 1) # 0

Path(url) ==
  LET q == FirstIndex(url, "?", 1)
  IN  IF q = 0 THEN url ELSE SubSeq(url, 1, q - 1)

Query(url) ==
  LET q == FirstIndex(url, "?", 1)
  IN  IF q = 0 THEN <<>> ELSE SubSeq(url, q + 1, Len(url))

RECURSIVE SplitAmp(_)
SplitAmp(query) ==
  IF query = <<>> THEN <<>>
  ELSE LET a == FirstIndex(query, "&", 1)
       IN  IF a = 0 THEN <<query>>
           ELSE <<SubSeq(query, 1, a - 1)>>
                  \o SplitAmp(SubSeq(query, a + 1, Len(query)))

\* the names of the parameters of the query string, in order, each with
\* its "="
QueryKeys(url) ==
  LET params == SplitAmp(Query(url))
  IN  [i \in 1..Len(params) |-> params[i][1]]

Made == call.op # "none"
RequestedUrl == requests[1].url
Answered == "json" \in DOMAIN reply
EnvelopeMeta(doc) ==
  /\ "meta" \in DOMAIN doc
  /\ DOMAIN doc.meta = {"code", "message", "description"}

\* the optional parameters of each method, in the order of the code
OptionalOf(op) ==
  CASE op = "getCatalogSupersets" -> <<"color_id">>
    [] op = "getCatalogSubsets" ->
         <<"color_id", "box", "instruction", "break_minifigs", "break_subsets">>
    [] op = "getCatalogPriceGuide" ->
         <<"color_id", "guide_type", "new_or_used", "country_code", "region",
           "currency_code", "vat">>
    [] OTHER -> <<>>

Supplied(c, p) == c[p] # None
Falsy(x) == x \in {PyInt(0), PyBool(FALSE), PyStr("")}
KeyOf(p) == p \o "="

\* the keys of the parameters ps that the call c supplies, in the order of ps
RECURSIVE SuppliedKeys(_, _)
SuppliedKeys(c, ps) ==
  IF ps = <<>> THEN <<>>
  ELSE (IF Supplied(c, ps[1]) THEN <<KeyOf(ps[1])>> ELSE <<>>)
         \o SuppliedKeys(c, Tail(ps))

\* the call c with every falsy optional argument left out
Unsupply(c) ==
  [f \in DOMAIN c |->
     IF f \in Range(OptionalOf(c.op)) /\ Falsy(c[f]) THEN None ELSE c[f]]

\* the URL the method of c requests
UrlOf(c) ==
  CASE c.op = "getCatalogSupersets" ->
         getCatalogSupersets(self, c.type, c.no, c.color_id, reply).requests[1].url
    [] c.op = "getCatalogSubsets" ->
         getCatalogSubsets(self, c.type, c.no, c.color_id, c.box, c.instruction,
                           c.break_minifigs, c.break_subsets, reply).requests[1].url
    [] c.op = "getCatalogPriceGuide" ->
         getCatalogPriceGuide(self, c.type, c.no, c.color_id, c.guide_type,
                              c.new_or_used, c.country_code, c.region,
                              c.currency_code, c.vat, reply).requests[1].url

(***************************************************************************)
(* The properties.                                                         *)
(***************************************************************************)

\* C1: an answer with a meta object (code, message, description) and a data
\* field: with meta.code = 200 the call returns data unchanged; with any
\* other code it raises BricklinkException whose code, message and
\* description are those of meta.
C1_EnvelopeValidated ==
  (Made /\ Answered /\ EnvelopeMeta(reply.json) /\ "data" \in DOMAIN reply.json)
    => IF reply.json.meta.code = 200
         THEN outcome.status = "return" /\ outcome.value = reply.json.data
         ELSE /\ outcome.status = "raise"
              /\ outcome.exc = "BricklinkException"
              /\ outcome.value.code = reply.json.meta.code
              /\ outcome.value.message = reply.json.meta.message
              /\ outcome.value.description = reply.json.meta.description

C1_Witness ==
  /\ Made /\ Answered
  /\ EnvelopeMeta(reply.json) /\ "data" \in DOMAIN reply.json
  /\ reply.json.meta.code = 404
  /\ outcome = Raise("BricklinkException", MetaNotFound)

\* C2 (as claimed): called with no optional parameter, getCatalogItem,
\* getCatalogSupersets, getCatalogSubsets and getCatalogPriceGuide request a
\* URL with type and no in its path and without query string: no "?" and
\* nothing after the path.
C2_NoQueryString ==
  (/\ call.op \in {"getCatalogItem", "getCatalogSupersets", "getCatalogSubsets",
                   "getCatalogPriceGuide"}
   /\ \A i \in 1..Len(OptionalOf(call.op)) : ~Supplied(call, OptionalOf(call.op)[i]))
    => /\ call.type \in Range(Path(RequestedUrl))
       /\ call.no \in Range(Path(RequestedUrl))
       /\ ~HasQueryMark(RequestedUrl)
       /\ RequestedUrl = Path(RequestedUrl)

\* C3 (as claimed): the query string of getCatalogSubsets holds exactly the
\* parameters that were supplied (zero and False too), each once, in the
\* order color_id, box, instruction, break_minifigs, break_subsets.
C3_PresenceDecides ==
  call.op = "getCatalogSubsets"
    => QueryKeys(RequestedUrl) = SuppliedKeys(call, OptionalOf(call.op))

\* C4: every call issues exactly one GET request, whatever its outcome: the
\* requests issued so far are as many as the calls made, and the last call
\* issued one.
C4_OneRequestPerCall ==
  /\ nrequests = ncalls
  /\ Made => Len(requests) = 1

C4_Witness ==
  /\ ncalls > 1
  /\ outcome.exc = "BricklinkException"
  /\ Len(requests) = 1
  /\ nrequests = ncalls

RECURSIVE TotalEntries(_)
TotalEntries(groups) ==
  IF groups = <<>> THEN 0
  ELSE Len(groups[1].entries) + TotalEntries(Tail(groups))

C7_MalformedDistinct ==
  (Made /\ Answered
     /\ ("meta" \notin DOMAIN reply.json \/ "data" \notin DOMAIN reply.json))
    => outcome.status = "raise" /\ outcome.exc # "BricklinkException"

\* C7 (amended): an answer that lacks meta, or that has meta.code = 200 and
\* lacks data, makes the call fail with a KeyError, never a
\* BricklinkException and never a value; an answer that lacks only data and
\* whose meta (code, message, description) has a code other than 200 makes
\* the call fail with the BricklinkException of that meta.
C7_MalformedKeyError ==
  (Made /\ Answered)
    => /\ "meta" \notin DOMAIN reply.json
            => outcome = Raise("KeyError", "meta")
       /\ ("meta" \in DOMAIN reply.json /\ "data" \notin DOMAIN reply.json
             /\ "code" \in DOMAIN reply.json.meta)
            => IF reply.json.meta.code = 200
                 THEN outcome = Raise("KeyError", "data")
                 ELSE EnvelopeMeta(reply.json)
                        => outcome = Raise("BricklinkException", reply.json.meta)

C7_Witness ==
  /\ Made /\ Answered
  /\ reply.json = [meta |-> MetaOK]
  /\ outcome = Raise("KeyError", "data")

\* the part of the URL of each method that follows /items/{type}/{no}
Suffix(c) ==
  CASE c.op = "getCatalogItem" -> ""
    [] c.op = "getCatalogItemImage" -> "/images/" \o Dec(c.color_id.v)
    [] c.op = "getCatalogSupersets" -> "/supersets"
    [] c.op = "getCatalogSubsets" -> "/subsets"
    [] c.op = "getCatalogPriceGuide" -> "/price"

\* C8: the path of the requested URL (the URL up to its query string) is
\* the base https://api.bricklink.com/api/store/v1, then /items/{type}/{no},
\* then the suffix of the method.
C8_PathOfEndpoint ==
  Made => Render(Path(RequestedUrl))
            = "https://api.bricklink.com/api/store/v1/items/"
                \o call.type \o "/" \o call.no \o Suffix(call)

C8_Witness ==
  /\ call.op = "getCatalogItemImage"
  /\ call.type = "SET" /\ call.no = "3001" /\ call.color_id = PyInt(11)
  /\ Render(RequestedUrl)
       = "https://api.bricklink.com/api/store/v1/items/SET/3001/images/11"

\* C9: a call leaves the client object (its credentials) as it was, and a
\* call made with the arguments of the call before it and given the same
\* answer requests the same URL with the same credentials and ends the same.
C9_Stateless ==
  [][/\ self' = self
     /\ (call' = call /\ reply' = reply)
          => (requests' = requests /\ outcome' = outcome)]_vars

C9_Witness ==
  /\ ncalls > 1
  /\ outcome.status = "raise"
  /\ self = BricklinkApi("ck2", "cs2", "at2", "ats2")
  /\ requests[1].auth = OAuth1("ck2", "cs2", "at2", "ats2")

\* C10 (as claimed): in getCatalogSupersets, getCatalogSubsets and
\* getCatalogPriceGuide a parameter supplied with a falsy value (0, "",
\* False) is left out of the query string.
C10_FalsyOmittedEverywhere ==
  Made => \A i \in 1..Len(OptionalOf(call.op)) :
            Falsy(call[OptionalOf(call.op)[i]])
              => KeyOf(OptionalOf(call.op)[i]) \notin Range(QueryKeys(RequestedUrl))

\* C10 (amended): in getCatalogSubsets and getCatalogPriceGuide a parameter
\* supplied with a falsy value is treated as one that was not supplied: it
\* is left out of the query string, and the URL is that of the call without
\* it.  In getCatalogSupersets color_id is left out only when it was not
\* supplied; color_id = 0 is sent.
C10_FalsyOmitted ==
  /\ call.op \in {"getCatalogSubsets", "getCatalogPriceGuide"}
       => /\ \A i \in 1..Len(OptionalOf(call.op)) :
               Falsy(call[OptionalOf(call.op)[i]])
                 => KeyOf(OptionalOf(call.op)[i])
                      \notin Range(QueryKeys(RequestedUrl))
          /\ RequestedUrl = UrlOf(Unsupply(call))
  /\ call.op = "getCatalogSupersets"
       => QueryKeys(RequestedUrl) = SuppliedKeys(call, OptionalOf(call.op))

C10_Witness ==
  /\ call.op = "getCatalogSubsets"
  /\ call.color_id = PyInt(0) /\ call.box = PyBool(FALSE)
  /\ call.instruction = PyBool(TRUE)
  /\ Render(Query(RequestedUrl)) = "instruction=True"

====
